---- MODULE Spec2Model ----
(***************************************************************************)
(* Cloud water-level server (server.js): the in-memory current reading,    *)
(* the bounded history, the Telegram alert logic with its asynchronous     *)
(* completion callbacks, and the HTTP handlers that drive them.            *)
(*                                                                         *)
(* Each HTTP handler runs to completion on the Node event loop, so it is   *)
(* one atomic action.  bot.sendMessage returns a promise: it is an entry   *)
(* of `pending` that a later action resolves or rejects.                   *)
(*                                                                         *)
(* Abstractions: levels and distances are whole numbers (the code keeps    *)
(* floats); Date.now() is read once per handler; a time label is the       *)
(* second / minute of the day in UTC.                                      *)
(***************************************************************************)
EXTENDS Integers, Sequences, FiniteSets, TLC

VARIABLES
    currentStatus,   \* server.js:17  the current reading
    history,         \* server.js:26  sequence of history points, oldest first
    lastAlertTime,   \* server.js:37
    lastAlertType,   \* server.js:38  NoAlert (null), "low" or "high"
    clock,           \* the value Date.now() returns
    pending,         \* promises of bot.sendMessage not yet settled
    request,         \* the HTTP request the last step handled, NoRequest if none
    response,        \* the HTTP response the last step sent, NoResponse if none
    running,         \* FALSE once the process was terminated
    unhandled,       \* promise rejections no handler consumed
    errorLog,        \* lines written by console.error
    ingested,        \* history variable: one record per accepted ingestion of this run
    device,          \* the kind of device that reports in this run, see Devices
    before,          \* history variable: accepted ingestions made before this run
    snapshot         \* history variable: what the last history query returned, if no
                     \* ingestion was accepted since

vars == <<currentStatus, history, lastAlertTime, lastAlertType, clock, pending,
          request, response, running, unhandled, errorLog, ingested, device, before,
          snapshot>>

-----------------------------------------------------------------------------
(* Bounds of the model *)

MaxUpdates == 3      \* accepted ingestions in one run
PrefillLen == 99     \* accepted ingestions already made in InitFilled

-----------------------------------------------------------------------------
(* JavaScript values.  A JSON value is a one-field record, so values of     *)
(* different types compare unequal.                                         *)

Num(n) == [num |-> n]
Str(s) == [str |-> s]
NaN == [nan |-> TRUE]
Undefined == [undef |-> TRUE]

IsNum(v) == DOMAIN v = {"num"}

\* The strings of the model that parse as a number, and their values.
NumericStrings == {"50"}
StringValue(s) == 50

\* parseFloat: a number is itself, a numeric string its value, all else NaN.
parseFloat(v) ==
    IF IsNum(v) THEN v
    ELSE IF DOMAIN v = {"str"} /\ v.str \in NumericStrings THEN Num(StringValue(v.str))
    ELSE NaN

\* parseInt(rssi) || -100 : NaN and 0 are falsy.
RssiDefault == 0 - 100
parseRssi(v) ==
    LET n == parseFloat(v)
    IN  IF IsNum(n) /\ n.num # 0 THEN n ELSE Num(RssiDefault)

\* JavaScript comparison of two numbers: false when either is NaN.
JsLt(a, b) == IsNum(a) /\ IsNum(b) /\ a.num < b.num
JsGt(a, b) == IsNum(a) /\ IsNum(b) /\ a.num > b.num
JsGe(a, b) == IsNum(a) /\ IsNum(b) /\ a.num >= b.num
JsLe(a, b) == IsNum(a) /\ IsNum(b) /\ a.num <= b.num

-----------------------------------------------------------------------------
(* Configuration (config.js): thresholds and cooldown *)

AlertsLow == 10
AlertsHigh == 90
AlertsCooldown == 60000

MAX_HISTORY == 100
OnlineWindow == 120000

-----------------------------------------------------------------------------
(* Time *)

\* The first value of Date.now() in a run.
StartClock == OnlineWindow

\* The instants at which something happens in a run, as offsets from the start.
\* Their differences are 1, AlertsCooldown, AlertsCooldown + 1, OnlineWindow - 1
\* and OnlineWindow: both sides of the cooldown and of the online window.
ClockOffsets == {0, 1, AlertsCooldown + 1, OnlineWindow}

\* toLocaleTimeString('en-US', {hour12: false}) : second of the day
TimeString(now) == (now \div 1000) % 86400
\* toLocaleTimeString('en-US', {hour: '2-digit', minute: '2-digit'}) : minute of the day
MinuteString(now) == (now \div 60000) % 1440

-----------------------------------------------------------------------------
(* Alert logic: checkAlerts *)

NoAlert == "null"

\* Thresholds that belong to the alert bands.
AlertTypeOfInclusive(level) ==
    IF JsLe(level, Num(AlertsLow)) THEN "low"
    ELSE IF JsGe(level, Num(AlertsHigh)) THEN "high"
    ELSE NoAlert

\* lines 45-51: the alert type of a level
AlertTypeOf(level) ==
    IF JsLt(level, Num(AlertsLow)) THEN "low"
    ELSE IF JsGt(level, Num(AlertsHigh)) THEN "high"
    ELSE NoAlert

\* line 57: send when the type differs from the last one or the cooldown is over
ShouldSend(alertType, now, lastTime, lastType) ==
    alertType # lastType \/ now - lastTime > AlertsCooldown

\* line 72: back in the normal range with an alert type recorded
ShouldReset(level, lastType) ==
    lastType # NoAlert /\ JsGe(level, Num(AlertsLow)) /\ JsLe(level, Num(AlertsHigh))

\* The alert type checkAlerts sends a message for, NoAlert when it sends none.
AlertSent(level, now, lastTime, lastType) ==
    LET alertType == AlertTypeOf(level)
    IN  IF alertType # NoAlert /\ ShouldSend(alertType, now, lastTime, lastType)
        THEN alertType ELSE NoAlert

\* lastAlertType when checkAlerts returns (lines 70-75; line 64 runs later)
AlertTypeAfterCheck(level, lastType) ==
    IF AlertTypeOf(level) = NoAlert /\ ShouldReset(level, lastType)
    THEN NoAlert ELSE lastType

-----------------------------------------------------------------------------
(* Current reading and history *)

\* lines 17-23
InitialStatus ==
    [distance |-> Num(0), level |-> Num(0), rssi |-> Num(RssiDefault),
     time |-> Str("--:--"), lastSeen |-> 0]

\* A check that forgets the level.
MissingDataDistanceOnly(body) == body.distance = Undefined

\* line 85
MissingData(body) == body.distance = Undefined \/ body.level = Undefined

\* lines 90-96
NewStatus(body, now) ==
    [distance |-> parseFloat(body.distance), level |-> parseFloat(body.level),
     rssi |-> parseRssi(body.rssi), time |-> Num(TimeString(now)), lastSeen |-> now]

\* A history point that keeps the level as it came in the request.
HistoryPointRawLevel(body, now) == [t |-> MinuteString(now), v |-> body.level]

\* lines 99-102
HistoryPoint(body, now) == [t |-> MinuteString(now), v |-> parseFloat(body.level)]

\* A history that drops the newest point, not the oldest, when it is full.
HistoryPushDropsNewest(h, point) ==
    LET pushed == Append(h, point)
    IN  IF Len(pushed) > MAX_HISTORY THEN SubSeq(pushed, 1, MAX_HISTORY) ELSE pushed

\* A history that is never cut.
HistoryPushNoShift(h, point) == Append(h, point)

\* lines 104-107: push, then shift when over MAX_HISTORY
HistoryPush(h, point) ==
    LET pushed == Append(h, point)
    IN  IF Len(pushed) > MAX_HISTORY THEN Tail(pushed) ELSE pushed

\* lines 112-120: the lifecycle message of a status flag
LifecycleOf(status) ==
    IF status = Str("boot") THEN "boot"
    ELSE IF status = Str("wake") THEN "wake"
    ELSE "none"

\* An online window that includes its end.
IsOnlineInclusive(lastSeen, now) == now - lastSeen <= OnlineWindow

\* line 150
IsOnline(lastSeen, now) == now - lastSeen < OnlineWindow

-----------------------------------------------------------------------------
(* Request bodies *)

DistanceInputs == {Undefined, Num(12)}
LevelInputs ==
    {Undefined, Num(5), Num(AlertsLow), Num(50), Num(AlertsHigh), Num(95), Str("50"), Str("abc")}
RssiInputs == {Undefined, Num(0 - 70), Num(0), Str("weak")}
StatusInputs == {Undefined, Str("boot"), Str("wake")}

\* The requests of the model.  One that lacks a required field is tried with
\* an alarming level and a boot flag in it, so that a handler that went on
\* after the check would be seen to.
Bodies ==
    {b \in [distance : DistanceInputs, level : LevelInputs,
            rssi : RssiInputs, status : StatusInputs] :
        (b.distance = Undefined \/ b.level = Undefined)
            => (b.rssi = Undefined /\ b.status = Str("boot")
                /\ b.level \in {Undefined, Num(5)}
                /\ (b.distance = Undefined => b.level # Undefined))}

\* One device reports to the server in a run (a single writer).  The kinds of
\* device differ in the requests they send and in when they send them:
\*   "burst"    sends neither rssi nor status, MaxUpdates requests within a
\*              millisecond;
\*   "steady"   sends neither rssi nor status, at any instant of ClockOffsets;
\*   "flagging" sends status and no rssi, a level of 5 or 50, at the start of
\*              the run and when the cooldown is over;
\*   "signal"   sends rssi and no status, its level may be no number, within
\*              a millisecond;
\*   "threshold" sends neither rssi nor status, its levels are at and beyond
\*              the two thresholds, within a millisecond.
\* A request that lacks a required field can come from each of them.
Devices == {"burst", "steady", "flagging", "signal", "threshold"}

BodiesOf(dev) ==
    {b \in Bodies :
        \/ b.distance = Undefined \/ b.level = Undefined
        \/ /\ (dev # "signal" => b.rssi = Undefined /\ IsNum(b.level))
           /\ (dev # "flagging" => b.status = Undefined)
           /\ (dev = "flagging" => b.level \in {Num(5), Num(50)})
           /\ (dev = "threshold" => b.level \in {Num(5), Num(AlertsLow), Num(AlertsHigh), Num(95)})
           /\ (b.level \in {Num(AlertsLow), Num(AlertsHigh)} => dev = "threshold")}

\* The instants of a run of a device.
OffsetsOf(dev) ==
    IF dev = "steady" THEN ClockOffsets
    ELSE IF dev = "flagging" THEN {0, AlertsCooldown + 1}
    ELSE {0, 1}

\* Accepted ingestions in a run of a device.
UpdateBudget(dev) == IF dev = "burst" THEN MaxUpdates ELSE MaxUpdates - 1

-----------------------------------------------------------------------------
(* Requests and responses *)

NoRequest == [op |-> "none"]
UpdateRequest(body) == [op |-> "update", body |-> body]
StatusRequest == [op |-> "status"]
HistoryRequest == [op |-> "history"]

NoResponse == [op |-> "none"]

\* What the last history query returned, and the mark of there being none.
NoSnapshot == [taken |-> FALSE]
Snapshot(points) == [taken |-> TRUE, points |-> points]
MissingDataResponse == [op |-> "update", code |-> 400, error |-> "Missing data"]
SuccessResponse == [op |-> "update", code |-> 200, success |-> TRUE]

\* A handler that awaits the lifecycle message before it answers: the step
\* that handles a flagged request sends no response.
UpdateResponseAwaitsSend(body) ==
    IF MissingData(body) THEN MissingDataResponse
    ELSE IF body.status # Undefined THEN NoResponse
    ELSE SuccessResponse

\* lines 85-87 and 125: the answer to an update request, given when the
\* handler returns
UpdateResponse(body) ==
    IF MissingData(body) THEN MissingDataResponse ELSE SuccessResponse

-----------------------------------------------------------------------------
(* Initial states *)

Init ==
    /\ currentStatus = InitialStatus
    /\ history = << >>
    /\ lastAlertTime = 0
    /\ lastAlertType = NoAlert
    /\ clock = StartClock
    /\ pending = {}
    /\ request = NoRequest
    /\ response = NoResponse
    /\ running = TRUE
    /\ unhandled = 0
    /\ errorLog = 0
    /\ ingested = << >>
    /\ device \in Devices
    /\ before = 0
    /\ snapshot = NoSnapshot

\* The levels of the ingestions made before a run of SpecFilled starts: all in
\* the normal range and all different from their neighbours.
PrefillLevel(i) == AlertsLow + (i % (AlertsHigh - AlertsLow + 1))
PrefillBody(i) == [distance |-> Num(12), level |-> Num(PrefillLevel(i)),
                   rssi |-> Undefined, status |-> Undefined]

\* The state after PrefillLen accepted ingestions of PrefillBody at StartClock,
\* the last response still outstanding.
InitFilled ==
    /\ currentStatus = NewStatus(PrefillBody(PrefillLen), StartClock)
    /\ history = [i \in 1..PrefillLen |-> HistoryPoint(PrefillBody(i), StartClock)]
    /\ lastAlertTime = 0
    /\ lastAlertType = NoAlert
    /\ clock = StartClock
    /\ pending = {}
    /\ request = UpdateRequest(PrefillBody(PrefillLen))
    /\ response = SuccessResponse
    /\ running = TRUE
    /\ unhandled = 0
    /\ errorLog = 0
    /\ ingested = << >>
    /\ device = "flagging"
    /\ before = PrefillLen
    /\ snapshot = NoSnapshot

-----------------------------------------------------------------------------
(* Actions *)

\* An ingestion that sends one message at most: the lifecycle message, when
\* there is one, goes out in place of the alert.
NewPromisesOneMessage(id, lifecycle, alert, now) ==
    IF lifecycle # "none" THEN {[id |-> id, kind |-> lifecycle, now |-> now]}
    ELSE IF alert # NoAlert THEN {[id |-> id, kind |-> alert, now |-> now]}
    ELSE {}

\* The promises an accepted ingestion creates: one per bot.sendMessage call
\* (lines 114, 118 and 60).  id is the position of the ingestion in `ingested`.
NewPromises(id, lifecycle, alert, now) ==
    (IF lifecycle # "none" THEN {[id |-> id, kind |-> lifecycle, now |-> now]} ELSE {})
    \cup (IF alert # NoAlert THEN {[id |-> id, kind |-> alert, now |-> now]} ELSE {})


\* POST /api/update, lines 82-126
PostUpdate(body) ==
    /\ running
    /\ request' = UpdateRequest(body)
    /\ IF MissingData(body)
       THEN /\ response' = UpdateResponse(body)
            /\ UNCHANGED <<currentStatus, history, lastAlertTime, lastAlertType, clock,
                           pending, running, unhandled, errorLog, ingested, device, before, snapshot>>
       ELSE LET status == NewStatus(body, clock)
                lifecycle == LifecycleOf(body.status)
                alert == AlertSent(status.level, clock, lastAlertTime, lastAlertType)
                id == Len(ingested) + 1
            IN  /\ Len(ingested) < UpdateBudget(device)
                /\ currentStatus' = status
                /\ history' = HistoryPush(history, HistoryPoint(body, clock))
                /\ pending' = pending \cup NewPromises(id, lifecycle, alert, clock)
                /\ lastAlertType' = AlertTypeAfterCheck(status.level, lastAlertType)
                /\ response' = UpdateResponse(body)
                /\ ingested' = Append(ingested,
                                  [reading |-> status, at |-> clock, alert |-> alert,
                                   outcome |-> IF alert = NoAlert THEN "none" ELSE "pending"])
                /\ snapshot' = NoSnapshot
                /\ UNCHANGED <<lastAlertTime, clock, running, unhandled, errorLog, device, before>>

\* A callback that records the other alert type, not the one it was sent for.
AlertResolvedRecordsOther(p) ==
    /\ running
    /\ request' = NoRequest
    /\ response' = NoResponse
    /\ p \in pending /\ p.kind \in {"low", "high"}
    /\ pending' = pending \ {p}
    /\ lastAlertTime' = p.now
    /\ lastAlertType' = (IF p.kind = "low" THEN "high" ELSE "low")
    /\ ingested' = [ingested EXCEPT ![p.id].outcome = "sent"]
    /\ UNCHANGED <<currentStatus, history, clock, running, unhandled,
                   errorLog, device, before, snapshot>>

\* The .then callback of an alert, lines 61-65
AlertResolved(p) ==
    /\ running
    /\ request' = NoRequest
    /\ response' = NoResponse
    /\ p \in pending /\ p.kind \in {"low", "high"}
    /\ pending' = pending \ {p}
    /\ lastAlertTime' = p.now
    /\ lastAlertType' = p.kind
    /\ ingested' = [ingested EXCEPT ![p.id].outcome = "sent"]
    /\ UNCHANGED <<currentStatus, history, clock, running, unhandled,
                   errorLog, device, before, snapshot>>

\* The .catch callback of an alert, lines 66-68
AlertRejected(p) ==
    /\ running
    /\ request' = NoRequest
    /\ response' = NoResponse
    /\ p \in pending /\ p.kind \in {"low", "high"}
    /\ pending' = pending \ {p}
    /\ errorLog' = errorLog + 1
    /\ ingested' = [ingested EXCEPT ![p.id].outcome = "failed"]
    /\ UNCHANGED <<currentStatus, history, lastAlertTime, lastAlertType, clock,
                   running, unhandled, device, before, snapshot>>

\* The promise of a lifecycle message is fulfilled: nothing is attached to it
\* (lines 114, 118).
LifecycleResolved(p) ==
    /\ running
    /\ request' = NoRequest
    /\ response' = NoResponse
    /\ p \in pending /\ p.kind \in {"boot", "wake"}
    /\ pending' = pending \ {p}
    /\ UNCHANGED <<currentStatus, history, lastAlertTime, lastAlertType, clock,
                   running, unhandled, errorLog, ingested, device, before, snapshot>>

\* The promise of a lifecycle message is rejected: no handler is attached to it
\* (lines 114, 118), so the rejection is unhandled.  The runtime then prints a
\* warning and goes on, or terminates the process.
LifecycleRejected(p) ==
    /\ running
    /\ request' = NoRequest
    /\ response' = NoResponse
    /\ p \in pending /\ p.kind \in {"boot", "wake"}
    /\ pending' = pending \ {p}
    /\ unhandled' = unhandled + 1
    /\ running' \in BOOLEAN
    /\ UNCHANGED <<currentStatus, history, lastAlertTime, lastAlertType, clock,
                   errorLog, ingested, device, before, snapshot>>

\* A status query that reports the time of the query as lastSeen.
GetStatusStampsNow ==
    /\ running
    /\ request' = StatusRequest
    /\ response' = [op |-> "status", code |-> 200,
                    body |-> [distance |-> currentStatus.distance,
                              level |-> currentStatus.level,
                              rssi |-> currentStatus.rssi,
                              time |-> currentStatus.time,
                              lastSeen |-> clock,
                              online |-> IsOnline(currentStatus.lastSeen, clock)]]
    /\ UNCHANGED <<currentStatus, history, lastAlertTime, lastAlertType, clock,
                   pending, running, unhandled, errorLog, ingested, device, before, snapshot>>

\* GET /api/status, lines 148-156
GetStatus ==
    /\ running
    /\ request' = StatusRequest
    /\ response' = [op |-> "status", code |-> 200,
                    body |-> [distance |-> currentStatus.distance,
                              level |-> currentStatus.level,
                              rssi |-> currentStatus.rssi,
                              time |-> currentStatus.time,
                              lastSeen |-> currentStatus.lastSeen,
                              online |-> IsOnline(currentStatus.lastSeen, clock)]]
    /\ UNCHANGED <<currentStatus, history, lastAlertTime, lastAlertType, clock,
                   pending, running, unhandled, errorLog, ingested, device, before, snapshot>>

\* A history query that hands out the points and keeps none.
GetHistoryDrains ==
    /\ running
    /\ request' = HistoryRequest
    /\ response' = [op |-> "history", code |-> 200, body |-> history]
    /\ snapshot' = Snapshot(history)
    /\ history' = << >>
    /\ UNCHANGED <<currentStatus, lastAlertTime, lastAlertType, clock,
                   pending, running, unhandled, errorLog, ingested, device, before>>

\* GET /api/history, lines 159-161
GetHistory ==
    /\ running
    /\ request' = HistoryRequest
    /\ response' = [op |-> "history", code |-> 200, body |-> history]
    /\ snapshot' = Snapshot(history)
    /\ UNCHANGED <<currentStatus, history, lastAlertTime, lastAlertType, clock,
                   pending, running, unhandled, errorLog, ingested, device, before>>

\* Time passes between two callbacks of the event loop.
Tick ==
    /\ running
    /\ request' = NoRequest
    /\ response' = NoResponse
    /\ \E o \in OffsetsOf(device) : StartClock + o > clock /\ clock' = StartClock + o
    /\ UNCHANGED <<currentStatus, history, lastAlertTime, lastAlertType, pending,
                   running, unhandled, errorLog, ingested, device, before, snapshot>>

Next ==
    \/ \E body \in BodiesOf(device) : PostUpdate(body)
    \/ \E p \in pending : AlertResolved(p)
    \/ \E p \in pending : AlertRejected(p)
    \/ \E p \in pending : LifecycleResolved(p)
    \/ \E p \in pending : LifecycleRejected(p)
    \/ GetStatus
    \/ GetHistory
    \/ Tick

Spec == Init /\ [][Next]_vars

\* The same program, observed from a state with PrefillLen ingestions made.
SpecFilled == InitFilled /\ [][Next]_vars

-----------------------------------------------------------------------------
(* The readings of a run, as the claims speak of them *)

Readings == DOMAIN ingested
LevelAt(i) == ingested[i].reading.level

\* The band of a reading: Low below the low threshold, High above the high
\* threshold, Normal from the one to the other; a level that is no number is
\* in no band.
IsLow(i) == IsNum(LevelAt(i)) /\ LevelAt(i).num < AlertsLow
IsHigh(i) == IsNum(LevelAt(i)) /\ LevelAt(i).num > AlertsHigh
IsNormal(i) ==
    IsNum(LevelAt(i)) /\ LevelAt(i).num >= AlertsLow /\ LevelAt(i).num <= AlertsHigh
BandAt(i) == IF IsLow(i) THEN "low" ELSE IF IsHigh(i) THEN "high" ELSE "normal"

\* An update request in which distance or level is absent.
Absent(req) ==
    req.op = "update" /\ (req.body.distance = Undefined \/ req.body.level = Undefined)

\* An update request that carries both distance and level.
Complete(req) ==
    req.op = "update" /\ req.body.distance # Undefined /\ req.body.level # Undefined

\* The band of a level, for a reading that is not yet in `ingested`.
BandOf(level) ==
    IF IsNum(level) /\ level.num < AlertsLow THEN "low"
    ELSE IF IsNum(level) /\ level.num > AlertsHigh THEN "high"
    ELSE "normal"

-----------------------------------------------------------------------------
(* C1 *)

\* C1: two alert dispatches of the same band, with no Normal-band reading and
\* no alert of the other band between them, are initiated more than the
\* cooldown apart; so of same-band readings within the cooldown only the first
\* initiates a dispatch, whenever the dispatches complete.
C1_SameBandAlertsCooldownApart ==
    \A i, j \in Readings :
        ( /\ i < j
          /\ ingested[i].alert # NoAlert
          /\ ingested[j].alert = ingested[i].alert
          /\ \A k \in Readings :
                (i < k /\ k < j) =>
                    (~IsNormal(k) /\ ingested[k].alert \in {NoAlert, ingested[i].alert}) )
        => ingested[j].at - ingested[i].at > AlertsCooldown

-----------------------------------------------------------------------------
(* C2 *)

\* C2: of a reading in band Low (or High), a Normal-band reading and a reading
\* in the first band again, all within the cooldown, the third initiates an
\* alert dispatch, and so does the first when it is the first reading the
\* server gets, whenever the first dispatch completes.
C2_NormalReadingRearmsAlert ==
    \A i \in Readings :
        ( /\ i + 2 \in Readings
          /\ BandAt(i) \in {"low", "high"}
          /\ IsNormal(i + 1)
          /\ BandAt(i + 2) = BandAt(i)
          /\ ingested[i + 2].at - ingested[i].at <= AlertsCooldown )
        => /\ ingested[i + 2].alert = BandAt(i)
           /\ (i = 1 => ingested[i].alert = BandAt(i))

-----------------------------------------------------------------------------
(* C3 *)

\* C3: when the dispatch of the alert of the most recent reading has failed,
\* a reading that follows in the same band and within the cooldown of that
\* alert initiates no dispatch.
C3_FailedDispatchStillCoolsDown ==
    [][( /\ Complete(request')
         /\ Len(ingested') = Len(ingested) + 1
         /\ ingested # << >>
         /\ ingested[Len(ingested)].alert # NoAlert
         /\ ingested[Len(ingested)].outcome = "failed"
         /\ BandOf(ingested'[Len(ingested')].reading.level) = ingested[Len(ingested)].alert
         /\ clock - ingested[Len(ingested)].at <= AlertsCooldown )
       => ingested'[Len(ingested')].alert = NoAlert]_vars

-----------------------------------------------------------------------------
(* C4 *)

\* The reading the most recent accepted ingestion wrote: that of the run, or
\* the last one made before the run, or none.
LastAccepted ==
    IF ingested # << >> THEN ingested[Len(ingested)].reading
    ELSE IF before > 0 THEN NewStatus(PrefillBody(before), StartClock)
    ELSE InitialStatus

\* C4: an update request in which distance or level is absent is answered
\* with the Missing-data error, status 400, and changes neither the current
\* reading, the history, lastAlertType, lastAlertTime nor the dispatches in
\* flight; and in every state the current reading is the one the most recent
\* accepted ingestion wrote.
C4_RejectedIngestionChangesNothing ==
    /\ [](currentStatus = LastAccepted)
    /\ [][Absent(request') =>
            /\ response' = [op |-> "update", code |-> 400, error |-> "Missing data"]
            /\ UNCHANGED <<currentStatus, history, lastAlertType, lastAlertTime,
                           pending, ingested>>]_vars

\* A request was rejected after one was accepted, with a dispatch in flight.
C4_Witness ==
    /\ Absent(request)
    /\ response = MissingDataResponse
    /\ ingested # << >>
    /\ pending # {}
    /\ currentStatus = ingested[Len(ingested)].reading

-----------------------------------------------------------------------------
(* C5, C6 *)

\* The levels of all accepted ingestions, those made before the run included,
\* in the order of arrival.
AcceptedLevels ==
    [i \in 1..(before + Len(ingested)) |->
        IF i <= before THEN Num(PrefillLevel(i)) ELSE LevelAt(i - before)]

Min(a, b) == IF a < b THEN a ELSE b

\* C5: after n accepted ingestions the history holds the levels of the last
\* min(n, 100) of them, oldest first.
C5_HistoryHoldsLastHundred ==
    LET n == Len(AcceptedLevels)
        k == Min(n, 100)
    IN  /\ Len(history) = k
        /\ \A i \in 1..k : history[i].v = AcceptedLevels[n - k + i]

\* More than 100 ingestions were accepted, the last two of different levels.
C5_Witness ==
    /\ before + Len(ingested) > 100
    /\ Len(ingested) >= 2
    /\ LevelAt(Len(ingested)) # LevelAt(Len(ingested) - 1)
    /\ history[Len(history)].v = LevelAt(Len(ingested))

\* C6: the history never holds more than 100 points.
C6_HistoryLengthAtMostHundred == Len(history) >= 0 /\ Len(history) <= 100

\* The history is full, an ingestion was accepted when it was, and a dispatch
\* completed after that.
C6_Witness ==
    /\ Len(history) = 100
    /\ before + Len(ingested) > 100
    /\ \E i \in Readings : ingested[i].outcome \in {"sent", "failed"}

-----------------------------------------------------------------------------
(* C7 *)

\* C7: of two readings in a row, one Low and the other High, the second
\* initiates an alert dispatch of its band, whatever the time between them,
\* and so does the first when it is the first reading the server gets.
C7_BandChangeAlwaysAlerts ==
    \A i \in Readings :
        ( /\ i + 1 \in Readings
          /\ BandAt(i) \in {"low", "high"}
          /\ BandAt(i + 1) \in {"low", "high"}
          /\ BandAt(i + 1) # BandAt(i) )
        => /\ ingested[i + 1].alert = BandAt(i + 1)
           /\ (i = 1 => ingested[i].alert = BandAt(i))

-----------------------------------------------------------------------------
(* C8 *)

\* The time of the most recent accepted ingestion, 0 before any.
LastAcceptedAt ==
    IF ingested # << >> THEN ingested[Len(ingested)].at
    ELSE IF before > 0 THEN StartClock
    ELSE 0

\* C8: a status query reports online exactly when less than 120000 ms have
\* passed since the most recent accepted ingestion (since 0 before any).
C8_OnlineIffSeenWithinTwoMinutes ==
    [][request' = StatusRequest => (response'.body.online <=> (clock - LastAcceptedAt < 120000))]_vars

\* A status query 120000 ms after an accepted ingestion reported offline.
C8_Witness ==
    /\ request = StatusRequest
    /\ response.op = "status"
    /\ ingested # << >>
    /\ clock - ingested[Len(ingested)].at = 120000
    /\ ~response.body.online

-----------------------------------------------------------------------------
(* C9 *)

\* C9: an update request that carries distance and level is answered with
\* success in the step that handles it, while every dispatch that step
\* initiated is still in flight.
C9_AcceptedIngestionAnsweredAtOnce ==
    [][Complete(request') =>
            /\ response' = [op |-> "update", code |-> 200, success |-> TRUE]
            /\ Len(ingested') = Len(ingested) + 1
            /\ LET new == ingested'[Len(ingested')]
               IN  /\ new.alert # NoAlert =>
                        /\ new.outcome = "pending"
                        /\ \E p \in pending' : p.id = Len(ingested') /\ p.kind = new.alert
                   /\ request'.body.status \in {Str("boot"), Str("wake")} =>
                        \E p \in pending' :
                            p.id = Len(ingested') /\ Str(p.kind) = request'.body.status]_vars

\* A request was answered with success while the alert and the lifecycle
\* message it caused are in flight.
C9_Witness ==
    /\ Complete(request)
    /\ response = SuccessResponse
    /\ ingested # << >>
    /\ ingested[Len(ingested)].alert # NoAlert
    /\ \E p, q \in pending :
          /\ p.id = Len(ingested) /\ p.kind \in {"low", "high"}
          /\ q.id = Len(ingested) /\ q.kind \in {"boot", "wake"}

-----------------------------------------------------------------------------
(* C10 *)

\* C10: no dispatch failure is left without a handler (and the process goes
\* on), and no emit decision or lifecycle flag has more than one send.
C10_EveryFailureHandledOnce ==
    /\ unhandled = 0
    /\ running
    /\ \A p, q \in pending : (p.id = q.id /\ p.kind = q.kind) => p = q

-----------------------------------------------------------------------------
(* C11 *)

\* C11: lastAlertType is null, 'low' or 'high', and it is 'low' or 'high' only
\* when an alert dispatch of that type was initiated before.
C11_AlertTypeOnlyAfterDispatch ==
    /\ lastAlertType \in {NoAlert, "low", "high"}
    /\ lastAlertType # NoAlert =>
            \E i \in Readings : ingested[i].alert = lastAlertType

\* The type of a completed High alert is recorded after a Low alert was.
C11_Witness ==
    /\ lastAlertType = "high"
    /\ \E i, j \in Readings :
          /\ i < j
          /\ ingested[i].alert = "low" /\ ingested[i].outcome = "sent"
          /\ ingested[j].alert = "high" /\ ingested[j].outcome = "sent"

-----------------------------------------------------------------------------
(* C12 *)

\* The lifecycle and the alert dispatches a step initiated.
NewLifecycle == {p \in pending' \ pending : p.kind \in {"boot", "wake"}}
NewAlerts == {p \in pending' \ pending : p.kind \in {"low", "high"}}

\* The alert an unflagged reading of this level would be sent for in this state.
UnflaggedAlert(level) == AlertSent(parseFloat(level), clock, lastAlertTime, lastAlertType)

\* C12: an accepted ingestion whose status is boot or wake initiates exactly
\* one lifecycle dispatch, of that status, in every alert state and for every
\* level; the alert dispatch it initiates and the alert state it leaves are
\* those of the same reading without a status; and the completion of a
\* lifecycle dispatch leaves the alert state as it is.
C12_LifecycleSentOnceBesideAlerts ==
    /\ [][(Complete(request') /\ request'.body.status \in {Str("boot"), Str("wake")}) =>
            /\ Cardinality(NewLifecycle) = 1
            /\ \A p \in NewLifecycle :
                  Str(p.kind) = request'.body.status /\ p.id = Len(ingested')
            /\ LET alert == UnflaggedAlert(request'.body.level)
               IN  /\ ingested'[Len(ingested')].alert = alert
                   /\ alert = NoAlert => NewAlerts = {}
                   /\ alert # NoAlert =>
                        /\ Cardinality(NewAlerts) = 1
                        /\ \A p \in NewAlerts : p.kind = alert
            /\ lastAlertTime' = lastAlertTime
            /\ lastAlertType' =
                  AlertTypeAfterCheck(parseFloat(request'.body.level), lastAlertType)]_vars
    /\ [][(\E p \in pending \ pending' : p.kind \in {"boot", "wake"}) =>
            UNCHANGED <<lastAlertTime, lastAlertType>>]_vars

\* A wake reading in band Low came within the cooldown of a sent Low alert: its
\* lifecycle message is in flight and no alert is.
C12_Witness ==
    /\ Complete(request)
    /\ request.body.status = Str("wake")
    /\ lastAlertType = "low"
    /\ Len(ingested) = 2
    /\ ingested[1].outcome = "sent"
    /\ ingested[2].alert = NoAlert
    /\ IsLow(2)
    /\ \E p \in pending : p.id = 2 /\ p.kind = "wake"

-----------------------------------------------------------------------------
(* C13 *)

\* C13: after an accepted ingestion the stored rssi is the rssi of the
\* request when that is a number, 0 and negative numbers included, and -100
\* when it is absent or no number.
C13_RssiStoredAsSupplied ==
    [][Complete(request') =>
            currentStatus'.rssi =
                (IF IsNum(request'.body.rssi) THEN request'.body.rssi
                 ELSE Num(0 - 100))]_vars

-----------------------------------------------------------------------------
(* C14 *)

\* C14: a status query and a history query change neither the current
\* reading, the history nor the alert state; and a history query returns the
\* sequence the history query before it returned when no ingestion was
\* accepted between the two, whatever else happened between them.
C14_QueriesChangeNothing ==
    /\ [][request' \in {StatusRequest, HistoryRequest} =>
            UNCHANGED <<currentStatus, history, lastAlertTime, lastAlertType, pending>>]_vars
    /\ [][(request' = HistoryRequest /\ snapshot.taken) =>
            response'.body = snapshot.points]_vars

\* A second history query returned a non-empty history, the one the first
\* returned, after a dispatch completed.
C14_Witness ==
    /\ request = HistoryRequest
    /\ snapshot.taken
    /\ response.body = snapshot.points
    /\ response.body # << >>
    /\ \E i \in Readings : ingested[i].outcome = "sent"

-----------------------------------------------------------------------------
(* C15 *)

\* C15: a reading whose level is the low or the high threshold initiates no
\* alert dispatch and leaves lastAlertType null; and a reading initiates an
\* alert dispatch only when its level is below the low threshold (a Low
\* alert) or above the high threshold (a High alert).
C15_ThresholdsAreNormal ==
    [][Complete(request') =>
        LET level == parseFloat(request'.body.level)
            new == ingested'[Len(ingested')]
        IN  /\ level \in {Num(AlertsLow), Num(AlertsHigh)} =>
                /\ new.alert = NoAlert
                /\ NewAlerts = {}
                /\ lastAlertType' = NoAlert
            /\ new.alert = "low" => IsNum(level) /\ level.num < AlertsLow
            /\ new.alert = "high" => IsNum(level) /\ level.num > AlertsHigh]_vars

\* A reading at the low threshold came after a sent Low alert and reset the
\* alert type.
C15_Witness ==
    /\ Complete(request)
    /\ Len(ingested) = 2
    /\ ingested[1].alert = "low" /\ ingested[1].outcome = "sent"
    /\ LevelAt(2) = Num(AlertsLow)
    /\ ingested[2].alert = NoAlert
    /\ lastAlertType = NoAlert

-----------------------------------------------------------------------------
(* C16 *)

\* C16: a reading in band Low or High initiates an alert dispatch, and the
\* alert state becomes that band and the time of the reading, exactly when the
\* band differs from lastAlertType or more than the cooldown has passed since
\* lastAlertTime; otherwise it initiates none and the alert state is unchanged.
C16_EmitCommitsAlertState ==
    [][(Complete(request') /\ BandOf(parseFloat(request'.body.level)) # "normal") =>
        LET band == BandOf(parseFloat(request'.body.level))
            new == ingested'[Len(ingested')]
        IN  IF band # lastAlertType \/ clock - lastAlertTime > AlertsCooldown
            THEN /\ new.alert = band
                 /\ lastAlertType' = band
                 /\ lastAlertTime' = clock
            ELSE /\ new.alert = NoAlert
                 /\ NewAlerts = {}
                 /\ UNCHANGED <<lastAlertType, lastAlertTime>>]_vars

-----------------------------------------------------------------------------
(* C17 *)

\* The readings accepted ingestions wrote, the initial reading when there was
\* none.
WrittenReadings ==
    {ingested[i].reading : i \in Readings}
    \cup {NewStatus(PrefillBody(i), StartClock) : i \in 1..before}
    \cup (IF before + Len(ingested) = 0 THEN {InitialStatus} ELSE {})

\* The history points of all accepted ingestions, those made before the run
\* included, in the order of arrival.
AcceptedPoints ==
    [i \in 1..(before + Len(ingested)) |->
        IF i <= before THEN HistoryPoint(PrefillBody(i), StartClock)
        ELSE [t |-> MinuteString(ingested[i - before].at), v |-> LevelAt(i - before)]]

\* The history as it stands when k ingestions are completed.
HistoryAfter(k) ==
    [i \in 1..Min(k, MAX_HISTORY) |-> AcceptedPoints[k - Min(k, MAX_HISTORY) + i]]

\* C17: the reading a status query returns is, field by field, the reading
\* one accepted ingestion wrote (the initial reading before any); and a
\* history query returns at most 100 points, the history as it stood after a
\* whole number of completed ingestions.
C17_QueriesSeeWholeIngestions ==
    /\ [][request' = StatusRequest =>
            \E r \in WrittenReadings :
                /\ response'.body.distance = r.distance
                /\ response'.body.level = r.level
                /\ response'.body.rssi = r.rssi
                /\ response'.body.time = r.time
                /\ response'.body.lastSeen = r.lastSeen]_vars
    /\ [][request' = HistoryRequest =>
            /\ Len(response'.body) <= 100
            /\ LET n == before + Len(ingested)
               IN  \E j \in 0..n : response'.body = HistoryAfter(n - j)]_vars

\* A history query returned 100 points after more than 100 ingestions, with
\* a dispatch in flight.
C17_Witness ==
    /\ request = HistoryRequest
    /\ before + Len(ingested) > 100
    /\ Len(response.body) = 100
    /\ response.body = HistoryAfter(before + Len(ingested))
    /\ pending # {}

-----------------------------------------------------------------------------
(* C18 *)

\* The readings an alert dispatch was initiated for, and the last of them.
Alerting == {i \in Readings : ingested[i].alert # NoAlert}
LastAlerting == CHOOSE m \in Alerting : \A i \in Alerting : i <= m

\* C18: when every alert dispatch has completed with success, lastAlertType
\* is the type of the alert initiated last, or null when a Normal-band
\* reading came after that alert, in whatever order the dispatches completed.
C18_LastInitiatedAlertWins ==
    ( /\ Alerting # {}
      /\ \A i \in Alerting : ingested[i].outcome = "sent" )
    => lastAlertType =
         (IF \E k \in Readings : k > LastAlerting /\ IsNormal(k)
          THEN NoAlert ELSE ingested[LastAlerting].alert)

-----------------------------------------------------------------------------
(* C19 *)

\* C19: lastAlertTime never decreases: every step leaves it as it is or
\* stores a value at least as large.
C19_AlertTimeNeverDecreases ==
    [][lastAlertTime' >= lastAlertTime]_vars

-----------------------------------------------------------------------------
(* C20 *)

\* C20: once an ingestion was accepted the history is not empty and the
\* value of its last point is the level of the current reading; before that
\* the history is empty and lastSeen is 0.  A level that is no number
\* is NaN in both places, which counts as the same value here.
C20_LastPointIsCurrentLevel ==
    IF before + Len(ingested) > 0
    THEN history # << >> /\ history[Len(history)].v = currentStatus.level
    ELSE history = << >> /\ currentStatus.lastSeen = 0

\* The level of the last accepted ingestion came as a numeric string, after a
\* reading of another level.
C20_Witness ==
    /\ Len(ingested) = 2
    /\ request.op = "update"
    /\ request.body.level = Str("50")
    /\ LevelAt(1) # LevelAt(2)
    /\ history[Len(history)].v = Num(50)
    /\ currentStatus.level = Num(50)

====
